---- MODULE Spec2Model ----
(***************************************************************************)
(* A model of src/src/generate_resume.py: the Markup Builder               *)
(* (build_document_xml, build_document_rels and the paragraph builders)    *)
(* and the Archive Splicer (generate_resume, _replace_in_zip) acting on a  *)
(* small file system.                                                      *)
(*                                                                         *)
(* Text values (name, phone, summary, ...) never influence control flow,   *)
(* so a paragraph records which input field its text was taken from.      *)
(* A relationship id f"rId{n}" is the pair <<"rId", n>>.                   *)
(***************************************************************************)
EXTENDS Integers, Sequences, FiniteSets, TLC

VARIABLES
    data,         \* content of the JSON input file
    output_path,  \* the output path passed to generate_resume
    fs,           \* file system: path -> file
    assets,       \* names of the files present in BADGES_DIR
    pc,           \* position of the invocation
    err,          \* exception that ended the invocation ("none" when none)
    raised_at,    \* pc at which that exception was raised
    badge_keys,   \* generate_resume's local badge_keys (line 669)
    doc_xml,      \* result of build_document_xml
    rels_xml,     \* result of build_document_rels
    zi,           \* index of the next template entry (loop of line 710)
    bi,           \* index of the next badge key (loop of line 722)
    warned,       \* asset paths reported missing by line 730
    out0,         \* file at the output path when the invocation started
    hashseed,     \* the interpreter process's string-hash seed
    prev_xml      \* document built by the previous process, same input

vars == <<data, output_path, fs, assets, pc, err, raised_at, badge_keys,
          doc_xml, rels_xml, zi, bi, warned, out0, hashseed, prev_xml>>

----------------------------------------------------------------------------
\* Bounds of the model

MaxBadges == 5
MaxJobs == 2
MaxBullets == 2
MaxSpliceBadges == 2
MaxEntries == 2

----------------------------------------------------------------------------
\* Constants of the program (lines 73-108)

Range(s) == {s[i] : i \in 1..Len(s)}

BADGE_REGISTRY ==
    [csm |-> [filename |-> "csm.png", cx |-> 962025, cy |-> 838200,
              descr |-> "Scrum Alliance CSM Certified"],
     ts_sci |-> [filename |-> "ts_sci.png", cx |-> 723900, cy |-> 781050,
                 descr |-> "TS/SCI Clearance"],
     aws_cloud_practitioner |->
                [filename |-> "aws_cloud_practitioner.png", cx |-> 795478,
                 cy |-> 795478, descr |-> "AWS Cloud Practitioner"],
     security_plus |-> [filename |-> "security_plus.png", cx |-> 822960,
                        cy |-> 822960, descr |-> "CompTIA Security+ Certified"]]

BADGE_POSITIONS_4 ==
    [aws_cloud_practitioner |-> <<3219450, 76200>>,
     security_plus |-> <<4076700, 57150>>,
     csm |-> <<4905375, 57150>>,
     ts_sci |-> <<5848350, 95250>>]

BADGE_AREA_LEFT == 3219450
BADGE_AREA_RIGHT == 6572250
BADGE_AREA_CENTER == (BADGE_AREA_LEFT + BADGE_AREA_RIGHT) \div 2
BADGE_VERTICAL_DEFAULT == 57150
BADGE_RID_START == 11

\* f"rId{n}"
RId(n) == <<"rId", n>>

\* HEADER_FOOTER_RELS in insertion order, which .items() follows
HEADER_FOOTER_RELS ==
    << [Id |-> RId(15), kind |-> "header", Target |-> "header1.xml"],
       [Id |-> RId(16), kind |-> "header", Target |-> "header2.xml"],
       [Id |-> RId(17), kind |-> "footer", Target |-> "footer1.xml"],
       [Id |-> RId(18), kind |-> "footer", Target |-> "footer2.xml"],
       [Id |-> RId(19), kind |-> "header", Target |-> "header3.xml"],
       [Id |-> RId(20), kind |-> "footer", Target |-> "footer3.xml"] >>

\* `key in BADGE_REGISTRY`
InRegistry(key) == key \in DOMAIN BADGE_REGISTRY

\* hash(badge_key): CPython's str hash is a keyed hash of the string under a
\* seed drawn when the interpreter starts; the model keeps that dependence.
KeyOrd(key) ==
    CASE key = "csm" -> 1
      [] key = "ts_sci" -> 2
      [] key = "aws_cloud_practitioner" -> 3
      [] key = "security_plus" -> 4
      [] OTHER -> 5

StrHash(seed, key) == seed * 1000003 + KeyOrd(key) * 7919

----------------------------------------------------------------------------
\* Markup Builder: badge layout (lines 238-325)

\* the i of the last occurrence of k in keys: a later dict store overwrites
LastIndex(keys, k) ==
    CHOOSE i \in 1..Len(keys) :
        keys[i] = k /\ \A j \in (i + 1)..Len(keys) : keys[j] # k

\* sum(BADGE_REGISTRY[k][1] for k in badge_keys if k in BADGE_REGISTRY)
RECURSIVE total_width(_)
total_width(keys) ==
    IF keys = <<>> THEN 0
    ELSE (IF InRegistry(Head(keys)) THEN BADGE_REGISTRY[Head(keys)].cx ELSE 0)
         + total_width(Tail(keys))

gap == 100000

\* current_x when the loop of line 321 reaches index i
RECURSIVE current_x(_, _, _)
current_x(keys, i, start_x) ==
    IF i = 1 THEN start_x
    ELSE current_x(keys, i - 1, start_x)
         + (IF InRegistry(keys[i - 1])
            THEN BADGE_REGISTRY[keys[i - 1]].cx + gap ELSE 0)

\* compute_badge_positions with line 319 subtracting the whole span instead
\* of its half
compute_badge_positions_unhalved(keys) ==
    IF Len(keys) = 4
    THEN [k \in Range(keys) |->
            IF k \in DOMAIN BADGE_POSITIONS_4
            THEN BADGE_POSITIONS_4[k]
            ELSE <<BADGE_AREA_CENTER, BADGE_VERTICAL_DEFAULT>>]
    ELSE LET total_span == IF Len(keys) > 1
                           THEN total_width(keys) + gap * (Len(keys) - 1)
                           ELSE total_width(keys)
             start_x == BADGE_AREA_CENTER - total_span
         IN  [k \in {x \in Range(keys) : InRegistry(x)} |->
                <<current_x(keys, LastIndex(keys, k), start_x),
                  BADGE_VERTICAL_DEFAULT>>]

compute_badge_positions(keys) ==
    IF Len(keys) = 4
    THEN [k \in Range(keys) |->
            IF k \in DOMAIN BADGE_POSITIONS_4
            THEN BADGE_POSITIONS_4[k]
            ELSE <<BADGE_AREA_CENTER, BADGE_VERTICAL_DEFAULT>>]
    ELSE LET total_span == IF Len(keys) > 1
                           THEN total_width(keys) + gap * (Len(keys) - 1)
                           ELSE total_width(keys)
             start_x == BADGE_AREA_CENTER - (total_span \div 2)
         IN  [k \in {x \in Range(keys) : InRegistry(x)} |->
                <<current_x(keys, LastIndex(keys, k), start_x),
                  BADGE_VERTICAL_DEFAULT>>]

\* build_badge_anchor: the fields of the wp:anchor that vary
build_badge_anchor(rid, badge_key, pos_h, pos_v, seed) ==
    [embed |-> rid,
     key |-> badge_key,
     posH |-> pos_h,
     posV |-> pos_v,
     cx |-> BADGE_REGISTRY[badge_key].cx,
     cy |-> BADGE_REGISTRY[badge_key].cy,
     docPr_id |-> StrHash(seed, badge_key) % 2000000000,
     cNvPr_id |-> StrHash(seed, badge_key) % 2000000000,
     descr |-> BADGE_REGISTRY[badge_key].descr]

\* number of registry keys among the first n keys
RECURSIVE KnownAmong(_, _)
KnownAmong(keys, n) ==
    IF n = 0 THEN 0
    ELSE KnownAmong(keys, n - 1) + (IF InRegistry(keys[n]) THEN 1 ELSE 0)

\* badge_rids of build_document_xml (lines 538-543)
BadgeRids(keys) ==
    [k \in {x \in Range(keys) : InRegistry(x)} |->
        RId(BADGE_RID_START + KnownAmong(keys, LastIndex(keys, k) - 1))]

\* the badge runs of build_education_paragraph (lines 335-349)
RECURSIVE BadgeRuns(_, _, _, _, _)
BadgeRuns(keys, i, badge_rids, positions, seed) ==
    IF i > Len(keys) THEN <<>>
    ELSE LET key == keys[i]
             pos == IF key \in DOMAIN positions THEN positions[key]
                    ELSE <<BADGE_AREA_CENTER, BADGE_VERTICAL_DEFAULT>>
             rest == BadgeRuns(keys, i + 1, badge_rids, positions, seed)
         IN  IF ~InRegistry(key) \/ key \notin DOMAIN badge_rids
             THEN rest
             ELSE <<build_badge_anchor(badge_rids[key], key, pos[1], pos[2],
                                       seed)>> \o rest

build_education_paragraph(keys, badge_rids, seed) ==
    [kind |-> "education",
     anchors |-> BadgeRuns(keys, 1, badge_rids, compute_badge_positions(keys),
                           seed),
     runs |-> <<"degree", "br", "university">>]

----------------------------------------------------------------------------
\* Markup Builder: the other paragraphs (lines 161-235, 378-503)

build_contact_paragraph == [kind |-> "contact"]

build_section_heading(title) == [kind |-> "heading", title |-> title]

build_summary_paragraph == [kind |-> "summary"]

build_empty_paragraph(sz, bold) == [kind |-> "empty", sz |-> sz, bold |-> bold]

\* pBdr is the nil-border element added when no company line follows
build_job_title_paragraph(title, has_company) ==
    [kind |-> "job_title", title |-> title, pBdr |-> ~has_company]

build_company_paragraph(company) == [kind |-> "company", company |-> company]

build_bullet_paragraph(text) == [kind |-> "bullet", text |-> text]

build_sect_pr ==
    [kind |-> "sectPr",
     refs |-> << [tag |-> "headerReference", type |-> "even", id |-> RId(15)],
                 [tag |-> "headerReference", type |-> "default", id |-> RId(16)],
                 [tag |-> "footerReference", type |-> "even", id |-> RId(17)],
                 [tag |-> "footerReference", type |-> "default", id |-> RId(18)],
                 [tag |-> "headerReference", type |-> "first", id |-> RId(19)],
                 [tag |-> "footerReference", type |-> "first", id |-> RId(20)] >>]

----------------------------------------------------------------------------
\* The parsed input.  keys, edu and a job's keys are the keys present in the
\* JSON objects; a field's value is read only when its key is present.

\* data.get("badges", ...) defaulting to every registry badge, as the
\* template has them, instead of to the empty list
GetBadgesDefaultingToAll(d) ==
    IF "badges" \in d.keys THEN d.badges
    ELSE <<"aws_cloud_practitioner", "security_plus", "csm", "ts_sci">>

\* data.get("badges", [])
GetBadges(d) == IF "badges" \in d.keys THEN d.badges ELSE <<>>

\* bool(job.get("company")): an absent key and an empty string are both false
\* HasCompany testing only that the job has a "company" key
HasCompanyKey(job) == "company" \in job.keys

HasCompany(job) == "company" \in job.keys /\ job.company # ""

\* a subscript of build_document_xml raises KeyError (lines 525-569)
RaisesKeyError(d) ==
    \/ {"name", "phone", "email", "summary", "education", "jobs"} \ d.keys # {}
    \/ {"degree", "university"} \ d.edu # {}
    \/ \E j \in 1..Len(d.jobs) :
           {"title", "dates", "bullets"} \ d.jobs[j].keys # {}

\* the paragraphs of one job (lines 563-570)
RECURSIVE BulletParagraphs(_, _)
BulletParagraphs(bullets, i) ==
    IF i > Len(bullets) THEN <<>>
    ELSE <<build_bullet_paragraph(bullets[i])>>
         \o BulletParagraphs(bullets, i + 1)

\* JobParagraphs with the company line appended after the bullets
JobParagraphsCompanyLast(job) ==
    <<build_job_title_paragraph(job.title, HasCompany(job))>>
    \o BulletParagraphs(job.bullets, 1)
    \o (IF HasCompany(job) THEN <<build_company_paragraph(job.company)>>
        ELSE <<>>)

JobParagraphs(job) ==
    <<build_job_title_paragraph(job.title, HasCompany(job))>>
    \o (IF HasCompany(job) THEN <<build_company_paragraph(job.company)>>
        ELSE <<>>)
    \o BulletParagraphs(job.bullets, 1)

RECURSIVE AllJobParagraphs(_, _)
AllJobParagraphs(jobs, j) ==
    IF j > Len(jobs) THEN <<>>
    ELSE JobParagraphs(jobs[j]) \o AllJobParagraphs(jobs, j + 1)

NoDocument == [raised |-> "none", built |-> FALSE, body |-> <<>>]

\* build_document_xml: the children of w:body in order, or the KeyError
build_document_xml(d, seed) ==
    IF RaisesKeyError(d)
    THEN [raised |-> "KeyError", built |-> FALSE, body |-> <<>>]
    ELSE [raised |-> "none", built |-> TRUE,
          body |->
            << build_contact_paragraph,
               build_section_heading("Professional Experience Summary"),
               build_summary_paragraph,
               build_section_heading("Education & Certifications"),
               build_education_paragraph(GetBadges(d),
                                         BadgeRids(GetBadges(d)), seed),
               build_empty_paragraph("22", TRUE),
               build_empty_paragraph("22", FALSE),
               build_empty_paragraph("22", TRUE),
               build_empty_paragraph("22", TRUE),
               build_section_heading("Professional Experience") >>
            \o AllJobParagraphs(d.jobs, 1)
            \o << build_empty_paragraph("22", FALSE),
                  build_empty_paragraph("22", FALSE),
                  build_sect_pr >>]

\* the image relationships of build_document_rels (lines 613-624)
RECURSIVE BadgeRels(_, _, _)
BadgeRels(keys, i, rid_num) ==
    IF i > Len(keys) THEN <<>>
    ELSE IF InRegistry(keys[i])
         THEN << [Id |-> RId(rid_num), Type |-> "image",
                  Target |-> "media/" \o BADGE_REGISTRY[keys[i]].filename] >>
              \o BadgeRels(keys, i + 1, rid_num + 1)
         ELSE BadgeRels(keys, i + 1, rid_num)

fixed_rels ==
    << [Id |-> RId(1), Type |-> "customXml", Target |-> "../customXml/item1.xml"],
       [Id |-> RId(2), Type |-> "customXml", Target |-> "../customXml/item2.xml"],
       [Id |-> RId(3), Type |-> "customXml", Target |-> "../customXml/item3.xml"],
       [Id |-> RId(4), Type |-> "customXml", Target |-> "../customXml/item4.xml"],
       [Id |-> RId(5), Type |-> "numbering", Target |-> "numbering.xml"],
       [Id |-> RId(6), Type |-> "styles", Target |-> "styles.xml"],
       [Id |-> RId(7), Type |-> "settings", Target |-> "settings.xml"],
       [Id |-> RId(8), Type |-> "webSettings", Target |-> "webSettings.xml"],
       [Id |-> RId(9), Type |-> "footnotes", Target |-> "footnotes.xml"],
       [Id |-> RId(10), Type |-> "endnotes", Target |-> "endnotes.xml"] >>

HeaderFooterRels ==
    [i \in 1..Len(HEADER_FOOTER_RELS) |->
        [Id |-> HEADER_FOOTER_RELS[i].Id,
         Type |-> HEADER_FOOTER_RELS[i].kind,
         Target |-> HEADER_FOOTER_RELS[i].Target]]

build_document_rels(keys) ==
    fixed_rels
    \o BadgeRels(keys, 1, BADGE_RID_START)
    \o HeaderFooterRels
    \o << [Id |-> RId(21), Type |-> "fontTable", Target |-> "fontTable.xml"],
          [Id |-> RId(22), Type |-> "theme", Target |-> "theme/theme1.xml"] >>

\* [k for k in data.get("badges", []) if k in BADGE_REGISTRY] (line 669)
FilterBadges(d) == SelectSeq(GetBadges(d), InRegistry)

----------------------------------------------------------------------------
\* Files.  A file is absent ("none"), a complete archive ("zip"), an archive
\* being written whose central directory is not yet there ("writing"), the
\* remains of an interrupted copy ("truncated") or bytes that are no archive
\* ("other").  An archive is the sequence of its entries.

TEMPLATE_PATH == "templates/vertekal_template.docx"
OUT_PATH == "out/resume.docx"
TMP_PATH == "tmp/tmp.docx"
\* os.path.join(BADGES_DIR, filename) of one badge, a path the caller may
\* also pass as output_path
ASSET_NAME == "ts_sci.png"
ASSET_PATH == "assets/badges/" \o ASSET_NAME
Paths == {TEMPLATE_PATH, OUT_PATH, TMP_PATH, ASSET_PATH}

NoFile == [kind |-> "none", entries |-> <<>>]
Zip(entries) == [kind |-> "zip", entries |-> entries]
Writing(entries) == [kind |-> "writing", entries |-> entries]
Truncated == [kind |-> "truncated", entries |-> <<>>]
Other == [kind |-> "other", entries |-> <<>>]
BadgeImage == [kind |-> "image", entries |-> <<>>]

DocName == "word/document.xml"
RelsName == "word/_rels/document.xml.rels"

\* the replacements dict of lines 676-679: the encoded doc_xml and rels_xml
replacements ==
    [n \in {DocName, RelsName} |->
        IF n = DocName THEN "doc_xml" ELSE "rels_xml"]

template_badge_files ==
    {"word/media/image1.png", "word/media/image2.png",
     "word/media/image3.png", "word/media/image4.png"}

\* zin.read(item.filename): looked up by name, which finds the last entry
\* of that name in the archive
ZipRead(entries, name) == entries[LastIndex([i \in 1..Len(entries) |->
                                               entries[i].name], name)].content

\* what the loop body of lines 711-719 appends to zout for one entry
CopiedEntry(entries, i) ==
    LET item == entries[i]
    IN  IF item.name \in DOMAIN replacements
        THEN <<[name |-> item.name, content |-> replacements[item.name]]>>
        ELSE IF item.name \in template_badge_files
             THEN <<>>
             ELSE <<[name |-> item.name,
                     content |-> ZipRead(entries, item.name)]>>

\* the bytes zout.write(src_path, ...) reads (line 728): those of the badge
\* image, unless the file at src_path has been written as the output
AssetContent(filename) ==
    IF filename = ASSET_NAME /\ fs[ASSET_PATH] # BadgeImage
    THEN "copy_of_template"
    ELSE "asset:" \o filename

\* what the loop body of lines 723-730 appends to zout for one badge key
BadgeEntry(key, present) ==
    IF InRegistry(key) /\ BADGE_REGISTRY[key].filename \in present
    THEN <<[name |-> "word/media/" \o BADGE_REGISTRY[key].filename,
            content |-> AssetContent(BADGE_REGISTRY[key].filename)]>>
    ELSE <<>>

\* a badge loop that skips a missing asset without reporting it
NoBadgeWarning(key, present) == <<>>

\* the warning of line 730
BadgeWarning(key, present) ==
    IF InRegistry(key) /\ BADGE_REGISTRY[key].filename \notin present
    THEN <<BADGE_REGISTRY[key].filename>>
    ELSE <<>>

----------------------------------------------------------------------------
\* Inputs

InputKeys == DOMAIN BADGE_REGISTRY \cup {"bogus"}
SpliceKeys == {"csm", "ts_sci", "bogus"}
HashSeeds == {0, 1}

SeqsUpTo(S, n) == UNION {[1..m -> S] : m \in 0..n}

RequiredKeys == {"name", "phone", "email", "summary", "education", "jobs"}

Job(title, company, nbullets) ==
    [keys |-> {"title", "dates", "bullets"}
              \cup (IF company = "absent" THEN {} ELSE {"company"}),
     title |-> title,
     company |-> IF company = "absent" THEN "" ELSE company,
     bullets |-> [i \in 1..nbullets |-> i]]

DefaultJob == Job(1, "Acme", 1)

JobShapes == {"absent", "", "Acme"} \X (0..MaxBullets)

JobLists ==
    {[j \in 1..Len(s) |-> Job(j, s[j][1], s[j][2])] :
        s \in SeqsUpTo(JobShapes, MaxJobs)}

ValidInput(has_badges, badges, jobs) ==
    [malformed |-> FALSE,
     keys |-> RequiredKeys \cup (IF has_badges THEN {"badges"} ELSE {}),
     edu |-> {"degree", "university"},
     badges |-> badges,
     jobs |-> jobs]

Malformed ==
    [malformed |-> TRUE, keys |-> {}, edu |-> {}, badges |-> <<>>,
     jobs |-> <<>>]

BaseInput == ValidInput(TRUE, <<"csm">>, <<DefaultJob>>)

\* inputs that parse and lack one required field
IncompleteInputs ==
    {[BaseInput EXCEPT !.keys = @ \ {k}] : k \in RequiredKeys}
    \cup {[BaseInput EXCEPT !.edu = @ \ {k}] : k \in {"degree", "university"}}
    \cup {[BaseInput EXCEPT !.jobs[1].keys = @ \ {k}] :
            k \in {"title", "dates", "bullets"}}

BuildInputs ==
    {ValidInput(TRUE, b, <<DefaultJob>>) : b \in SeqsUpTo(InputKeys, MaxBadges)}
    \cup {ValidInput(FALSE, <<>>, <<DefaultJob>>)}
    \cup {ValidInput(TRUE, <<"csm">>, js) : js \in JobLists}

PipelineInputs ==
    {ValidInput(TRUE, b, <<DefaultJob>>) :
        b \in SeqsUpTo(SpliceKeys, MaxSpliceBadges)}
    \cup {ValidInput(FALSE, <<>>, <<DefaultJob>>), Malformed}
    \cup IncompleteInputs

TemplateNames ==
    {DocName, RelsName, "word/media/image1.png", "word/styles.xml",
     "word/media/csm.png"}

TemplateEntries ==
    {[name |-> n, content |-> "t1"] : n \in TemplateNames}
    \cup {[name |-> "word/styles.xml", content |-> "t2"]}

Templates ==
    {Zip(s) : s \in SeqsUpTo(TemplateEntries, MaxEntries)} \cup {NoFile, Other}

OldOutput == Zip(<<[name |-> DocName, content |-> "old"]>>)

BadgeFiles == {BADGE_REGISTRY[k].filename : k \in DOMAIN BADGE_REGISTRY}
AssetSets == {BadgeFiles, BadgeFiles \ {"csm.png"}}

----------------------------------------------------------------------------
\* generate_resume (lines 656-681) and _replace_in_zip (lines 684-737)

Init ==
    /\ data \in PipelineInputs
    /\ \E t \in Templates, o \in {NoFile, OldOutput} :
          fs = [p \in Paths |->
                  IF p = TEMPLATE_PATH THEN t
                  ELSE IF p = OUT_PATH THEN o
                  ELSE IF p = ASSET_PATH THEN BadgeImage ELSE NoFile]
    /\ output_path \in {OUT_PATH, TEMPLATE_PATH, ASSET_PATH}
    /\ output_path # OUT_PATH => fs[OUT_PATH] = NoFile
    /\ out0 = fs[output_path]
    /\ assets \in AssetSets
    /\ pc = "start"
    /\ err = "none"
    /\ raised_at = "none"
    /\ badge_keys = <<>>
    /\ doc_xml = NoDocument
    /\ rels_xml = <<>>
    /\ zi = 1
    /\ bi = 1
    /\ warned = <<>>
    /\ hashseed = 0
    /\ prev_xml = NoDocument

\* the invocation ends with exception e propagating to the caller
Raise(e) ==
    /\ pc' = "failed"
    /\ err' = e
    /\ raised_at' = pc

\* an exception inside the try block of _replace_in_zip (lines 707-733)
RaiseInTry(e) ==
    /\ pc' = "except"
    /\ err' = e
    /\ raised_at' = pc

\* json.load(f) (lines 662-663)
LoadInput ==
    /\ pc = "start"
    /\ IF data.malformed
       THEN Raise("JSONDecodeError")
       ELSE pc' = "loaded" /\ UNCHANGED <<err, raised_at>>
    /\ UNCHANGED <<data, output_path, fs, assets, badge_keys, doc_xml,
                   rels_xml, zi, bi, warned, out0, hashseed, prev_xml>>

\* a copy without the same-file test: the destination is opened for writing
\* first, which empties the template when both paths name one file
CopyTemplateOntoItself ==
    /\ pc = "loaded"
    /\ IF fs[TEMPLATE_PATH].kind = "none"
       THEN Raise("FileNotFoundError") /\ UNCHANGED fs
       ELSE \E outcome \in {"ok", "denied", "partial"} :
              IF outcome = "ok"
              THEN /\ fs' = [fs EXCEPT ![output_path] =
                              IF output_path = TEMPLATE_PATH THEN Truncated
                              ELSE fs[TEMPLATE_PATH]]
                   /\ pc' = "copied"
                   /\ UNCHANGED <<err, raised_at>>
              ELSE /\ fs' = IF outcome = "partial"
                            THEN [fs EXCEPT ![output_path] = Truncated]
                            ELSE fs
                   /\ Raise("OSError")
    /\ UNCHANGED <<data, output_path, assets, badge_keys, doc_xml, rels_xml,
                   zi, bi, warned, out0, hashseed, prev_xml>>

\* shutil.copy2(template_path, output_path) (lines 666-667); a copy that
\* fails midway leaves a truncated destination
CopyTemplate ==
    /\ pc = "loaded"
    /\ IF fs[TEMPLATE_PATH].kind = "none"
       THEN Raise("FileNotFoundError") /\ UNCHANGED fs
       ELSE IF output_path = TEMPLATE_PATH
       THEN Raise("SameFileError") /\ UNCHANGED fs
       ELSE \E outcome \in {"ok", "denied", "partial"} :
              IF outcome = "ok"
              THEN /\ fs' = [fs EXCEPT ![output_path] = fs[TEMPLATE_PATH]]
                   /\ pc' = "copied"
                   /\ UNCHANGED <<err, raised_at>>
              ELSE /\ fs' = IF outcome = "partial"
                            THEN [fs EXCEPT ![output_path] = Truncated]
                            ELSE fs
                   /\ Raise("OSError")
    /\ UNCHANGED <<data, output_path, assets, badge_keys, doc_xml, rels_xml,
                   zi, bi, warned, out0, hashseed, prev_xml>>

\* lines 669-672: filter the badge keys and build the content tree
BuildDocumentXml ==
    /\ pc = "copied"
    /\ badge_keys' = FilterBadges(data)
    /\ doc_xml' = build_document_xml(data, hashseed)
    /\ IF doc_xml'.raised # "none"
       THEN Raise(doc_xml'.raised)
       ELSE pc' = "xml_built" /\ UNCHANGED <<err, raised_at>>
    /\ UNCHANGED <<data, output_path, fs, assets, rels_xml, zi, bi, warned,
                   out0, hashseed, prev_xml>>

\* line 673
BuildDocumentRels ==
    /\ pc = "xml_built"
    /\ rels_xml' = build_document_rels(badge_keys)
    /\ pc' = "rels_built"
    /\ UNCHANGED <<data, output_path, fs, assets, err, raised_at, badge_keys,
                   doc_xml, zi, bi, warned, out0, hashseed, prev_xml>>

\* tempfile.mkstemp and os.close (lines 704-705), before the try block
MakeTemp ==
    /\ pc = "rels_built"
    /\ \E ok \in BOOLEAN :
          IF ok
          THEN /\ fs' = [fs EXCEPT ![TMP_PATH] = Other]
               /\ pc' = "opening"
               /\ UNCHANGED <<err, raised_at>>
          ELSE Raise("OSError") /\ UNCHANGED fs
    /\ UNCHANGED <<data, output_path, assets, badge_keys, doc_xml, rels_xml,
                   zi, bi, warned, out0, hashseed, prev_xml>>

\* the two ZipFile constructors (lines 708-709)
OpenArchives ==
    /\ pc = "opening"
    /\ IF fs[output_path].kind # "zip"
       THEN RaiseInTry("BadZipFile") /\ UNCHANGED fs
       ELSE \E ok \in BOOLEAN :
              IF ok
              THEN /\ fs' = [fs EXCEPT ![TMP_PATH] = Writing(<<>>)]
                   /\ pc' = "splice"
                   /\ UNCHANGED <<err, raised_at>>
              ELSE RaiseInTry("OSError") /\ UNCHANGED fs
    /\ zi' = 1
    /\ bi' = 1
    /\ UNCHANGED <<data, output_path, assets, badge_keys, doc_xml, rels_xml,
                   warned, out0, hashseed, prev_xml>>

\* one iteration of the loop over zin.infolist() (lines 710-719)
CopyEntry ==
    /\ pc = "splice"
    /\ zi <= Len(fs[output_path].entries)
    /\ \E ok \in BOOLEAN :
          IF ok
          THEN /\ fs' = [fs EXCEPT ![TMP_PATH] =
                          Writing(@.entries
                                  \o CopiedEntry(fs[output_path].entries, zi))]
               /\ zi' = zi + 1
               /\ UNCHANGED <<pc, err, raised_at>>
          ELSE RaiseInTry("OSError") /\ UNCHANGED <<fs, zi>>
    /\ UNCHANGED <<data, output_path, assets, badge_keys, doc_xml, rels_xml,
                   bi, warned, out0, hashseed, prev_xml>>

\* one iteration of the loop over badge_keys (lines 722-730)
AddBadge ==
    /\ pc = "splice"
    /\ zi > Len(fs[output_path].entries)
    /\ bi <= Len(badge_keys)
    /\ \E ok \in BOOLEAN :
          IF ok
          THEN /\ fs' = [fs EXCEPT ![TMP_PATH] =
                          Writing(@.entries
                                  \o BadgeEntry(badge_keys[bi], assets))]
               /\ warned' = warned \o BadgeWarning(badge_keys[bi], assets)
               /\ bi' = bi + 1
               /\ UNCHANGED <<pc, err, raised_at>>
          ELSE RaiseInTry("OSError") /\ UNCHANGED <<fs, warned, bi>>
    /\ UNCHANGED <<data, output_path, assets, badge_keys, doc_xml, rels_xml,
                   zi, out0, hashseed, prev_xml>>

\* leaving the two with blocks: zout.close() writes the central directory
CloseArchives ==
    /\ pc = "splice"
    /\ zi > Len(fs[output_path].entries)
    /\ bi > Len(badge_keys)
    /\ \E ok \in BOOLEAN :
          IF ok
          THEN /\ fs' = [fs EXCEPT ![TMP_PATH] = Zip(@.entries)]
               /\ pc' = "closed"
               /\ UNCHANGED <<err, raised_at>>
          ELSE RaiseInTry("OSError") /\ UNCHANGED fs
    /\ UNCHANGED <<data, output_path, assets, badge_keys, doc_xml, rels_xml,
                   zi, bi, warned, out0, hashseed, prev_xml>>

\* shutil.move(tmp_path, zip_path) (line 733): a rename, or across file
\* systems a copy followed by the removal of the source; a failure leaves
\* the destination as it was or, when the copy is interrupted, truncated
MoveTemp ==
    /\ pc = "closed"
    /\ \E outcome \in {"ok", "denied", "partial"} :
          IF outcome = "ok"
          THEN /\ fs' = [fs EXCEPT ![output_path] = fs[TMP_PATH],
                                   ![TMP_PATH] = NoFile]
               /\ pc' = "moved"
               /\ UNCHANGED <<err, raised_at>>
          ELSE /\ fs' = IF outcome = "partial"
                        THEN [fs EXCEPT ![output_path] = Truncated]
                        ELSE fs
               /\ RaiseInTry("OSError")
    /\ UNCHANGED <<data, output_path, assets, badge_keys, doc_xml, rels_xml,
                   zi, bi, warned, out0, hashseed, prev_xml>>

\* the except clause re-raising without removing the temporary file
ExceptKeepsTemp ==
    /\ pc = "except"
    /\ pc' = "failed"
    /\ UNCHANGED <<data, output_path, fs, assets, err, raised_at, badge_keys,
                   doc_xml, rels_xml, zi, bi, warned, out0, hashseed,
                   prev_xml>>

\* the except clause (lines 734-737): remove the temporary file, re-raise
ExceptCleanup ==
    /\ pc = "except"
    /\ fs' = IF fs[TMP_PATH].kind # "none"
             THEN [fs EXCEPT ![TMP_PATH] = NoFile]
             ELSE fs
    /\ pc' = "failed"
    /\ UNCHANGED <<data, output_path, assets, err, raised_at, badge_keys,
                   doc_xml, rels_xml, zi, bi, warned, out0, hashseed,
                   prev_xml>>

\* print(f"Generated: {output_path}") (line 681)
Finish ==
    /\ pc = "moved"
    /\ pc' = "done"
    /\ UNCHANGED <<data, output_path, fs, assets, err, raised_at, badge_keys,
                   doc_xml, rels_xml, zi, bi, warned, out0, hashseed,
                   prev_xml>>

Next ==
    \/ LoadInput
    \/ CopyTemplate
    \/ BuildDocumentXml
    \/ BuildDocumentRels
    \/ MakeTemp
    \/ OpenArchives
    \/ CopyEntry
    \/ AddBadge
    \/ CloseArchives
    \/ MoveTemp
    \/ ExceptCleanup
    \/ Finish

Spec == Init /\ [][Next]_vars

----------------------------------------------------------------------------
\* The Markup Builder on its own: the same input is built by one interpreter
\* process and then by a second one.

DefaultTemplate ==
    Zip(<<[name |-> DocName, content |-> "t1"],
          [name |-> RelsName, content |-> "t1"]>>)

InitBuild ==
    /\ data \in BuildInputs
    /\ output_path = OUT_PATH
    /\ fs = [p \in Paths |->
                IF p = TMP_PATH THEN NoFile
                ELSE IF p = ASSET_PATH THEN BadgeImage ELSE DefaultTemplate]
    /\ out0 = NoFile
    /\ assets = BadgeFiles
    /\ pc = "copied"
    /\ err = "none"
    /\ raised_at = "none"
    /\ badge_keys = <<>>
    /\ doc_xml = NoDocument
    /\ rels_xml = <<>>
    /\ zi = 1
    /\ bi = 1
    /\ warned = <<>>
    /\ hashseed \in HashSeeds
    /\ prev_xml = NoDocument

\* a second interpreter process is started on the same input
NewProcess ==
    /\ pc = "rels_built"
    /\ ~prev_xml.built
    /\ prev_xml' = doc_xml
    /\ hashseed' \in HashSeeds
    /\ doc_xml' = NoDocument
    /\ rels_xml' = <<>>
    /\ badge_keys' = <<>>
    /\ pc' = "copied"
    /\ UNCHANGED <<data, output_path, fs, assets, err, raised_at, zi, bi,
                   warned, out0>>

NextBuild ==
    \/ BuildDocumentXml
    \/ BuildDocumentRels
    \/ NewProcess

SpecBuild == InitBuild /\ [][NextBuild]_vars

----------------------------------------------------------------------------
\* Vocabulary of the properties

SpliceStages == {"opening", "splice", "closed"}

\* the badge anchors of the education paragraph of a built document
EduAnchors(doc) ==
    doc.body[CHOOSE i \in 1..Len(doc.body) :
                 doc.body[i].kind = "education"].anchors

\* the header/footer references of the section block of a built document
SectRefs(doc) ==
    doc.body[CHOOSE i \in 1..Len(doc.body) : doc.body[i].kind = "sectPr"].refs

Declarations(rels, id) == {i \in 1..Len(rels) : rels[i].Id = id}

EntryNames(entries) == {entries[i].name : i \in 1..Len(entries)}

IsLegacySlot(e) == e.name \in template_badge_files

Distinct(s) == \A i, j \in 1..Len(s) : i # j => s[i] # s[j]

----------------------------------------------------------------------------
\* C1: when an exception is raised while the new archive is produced
\* (opening the archives, streaming entries, appending badges, the final
\* move), a file that existed at the output path before the invocation
\* still has its pre-invocation content when the invocation ends.
C1_PreexistingOutputKept ==
    (pc = "failed" /\ raised_at \in SpliceStages /\ out0.kind # "none")
        => fs[output_path] = out0

\* C2: an input that parses but lacks a required field fails with a lookup
\* error and leaves the output path as it was: no file is created where
\* none existed and an existing file is unchanged.
C2_NoOutputOnMissingField ==
    (pc = "failed" /\ err = "KeyError") => fs[output_path] = out0

\* everything the loop of line 710 writes for the entries from i on
RECURSIVE CopiedEntriesFrom(_, _)
CopiedEntriesFrom(entries, i) ==
    IF i > Len(entries) THEN <<>>
    ELSE CopiedEntry(entries, i) \o CopiedEntriesFrom(entries, i + 1)

\* the badge entries the loop of line 722 appends for a key sequence
RECURSIVE AppendedBadges(_, _)
AppendedBadges(keys, present) ==
    IF keys = <<>> THEN <<>>
    ELSE BadgeEntry(Head(keys), present)
         \o AppendedBadges(Tail(keys), present)

\* the archive a complete splice of a template writes
SplicedArchive(entries, keys, present) ==
    Zip(CopiedEntriesFrom(entries, 1) \o AppendedBadges(keys, present))

\* C3: once _replace_in_zip has ended, by return or by exception, no
\* temporary archive remains; after a return the temporary archive, complete,
\* is the file at the output path.
C3_NoTempLeftBehind ==
    /\ pc \in {"moved", "done", "failed"} => fs[TMP_PATH] = NoFile
    /\ pc \in {"moved", "done"} =>
          fs[output_path]
              = SplicedArchive(fs[TEMPLATE_PATH].entries, badge_keys, assets)

\* C3 witness: the final move failed with the finished temporary archive on
\* disk, and the handler has run.
C3_Witness ==
    /\ pc = "failed"
    /\ raised_at = "closed"
    /\ fs[TMP_PATH] = NoFile

\* C4: every relationship id referenced in the content tree (each badge
\* anchor's embed id, each of the six header/footer references) has exactly
\* one declaration in the manifest built for the same input, and every
\* image declaration of the manifest is referenced by a badge anchor.
C4_NoOrphanedIdentifiers ==
    pc = "rels_built" =>
        LET embeds == {a.embed : a \in Range(EduAnchors(doc_xml))}
            refs == {r.id : r \in Range(SectRefs(doc_xml))}
        IN  /\ \A id \in embeds \cup refs :
                  Cardinality(Declarations(rels_xml, id)) = 1
            /\ \A i \in 1..Len(rels_xml) :
                  rels_xml[i].Type = "image" => rels_xml[i].Id \in embeds

\* the input with every key outside the registry deleted from badges
WithoutUnknownKeys(d) == [d EXCEPT !.badges = SelectSeq(@, InRegistry)]

\* C6: unrecognized badge keys are ignored: the content tree, the manifest
\* and the badge entries added to the archive are those of the input with
\* the unrecognized keys deleted.
C6_UnknownKeysIgnored ==
    pc = "rels_built" =>
        LET clean == WithoutUnknownKeys(data)
        IN  /\ doc_xml = build_document_xml(clean, hashseed)
            /\ rels_xml = build_document_rels(FilterBadges(clean))
            /\ AppendedBadges(badge_keys, assets)
                   = AppendedBadges(FilterBadges(clean), assets)

\* C7: two processes that generate from the same input build the same
\* content tree, identifier fields included.
C7_SameDocumentTwice ==
    (prev_xml.built /\ doc_xml.built) => doc_xml = prev_xml

\* the badges of the input are n distinct registry keys, lo <= n <= hi
DistinctKnownBadges(d, lo, hi) ==
    /\ "badges" \in d.keys
    /\ Len(d.badges) \in lo..hi
    /\ \A i \in 1..Len(d.badges) : InRegistry(d.badges[i])
    /\ Distinct(d.badges)

\* one anchor per badge, in input order, none overlapping the next, all at
\* the default vertical offset
InOrderWithoutOverlap(d, A) ==
    /\ Len(A) = Len(d.badges)
    /\ \A i \in 1..Len(A) :
          A[i].key = d.badges[i] /\ A[i].posV = BADGE_VERTICAL_DEFAULT
    /\ \A i \in 1..(Len(A) - 1) :
          /\ A[i].posH < A[i + 1].posH
          /\ A[i + 1].posH - A[i].posH >= A[i].cx + gap

LeftOfCenter(A) == BADGE_AREA_CENTER - A[1].posH
RightOfCenter(A) == (A[Len(A)].posH + A[Len(A)].cx) - BADGE_AREA_CENTER

RECURSIVE SumCx(_)
SumCx(A) == IF A = <<>> THEN 0 ELSE Head(A).cx + SumCx(Tail(A))

\* C9: when the badges are exactly the four known keys, in any order, each
\* badge is placed at its entry of BADGE_POSITIONS_4; for every other badge
\* set the requested badges are spread evenly (one fixed gap apart) in input
\* order and centered on the band.
C9_TableOrEvenLayout ==
    doc_xml.built =>
        LET A == EduAnchors(doc_xml)
            keys == GetBadges(data)
        IN  IF Range(keys) = DOMAIN BADGE_REGISTRY /\ Len(keys) = 4
            THEN \A i \in 1..Len(A) :
                    <<A[i].posH, A[i].posV>> = BADGE_POSITIONS_4[A[i].key]
            ELSE /\ \A i \in 1..Len(A) : A[i].posV = BADGE_VERTICAL_DEFAULT
                 /\ \A i \in 1..(Len(A) - 1) :
                       A[i + 1].posH = A[i].posH + A[i].cx + gap
                 /\ Len(A) > 0 =>
                       A[1].posH = BADGE_AREA_CENTER
                           - ((SumCx(A) + gap * (Len(A) - 1)) \div 2)

\* the template entries outside the four legacy badge slots, in order
KeptEntries(entries) == SelectSeq(entries, LAMBDA e : ~IsLegacySlot(e))

\* word/media/<registry filename> of the requested registry badges whose
\* asset file exists
AvailableBadgeNames(d, present) ==
    {"word/media/" \o BADGE_REGISTRY[k].filename :
        k \in {x \in Range(GetBadges(d)) :
                 InRegistry(x) /\ BADGE_REGISTRY[x].filename \in present}}

\* C5: after a successful splice the entry names of the output archive are
\* the template's names minus the four legacy badge slots, plus
\* word/media/<filename> for each requested registry badge whose asset
\* exists; and every output entry that came from the template, other than
\* word/document.xml and word/_rels/document.xml.rels, has the name and the
\* content of the template entry it came from.
C5_ArchiveInvariant ==
    pc \in {"moved", "done"} =>
        LET T == KeptEntries(fs[TEMPLATE_PATH].entries)
            O == fs[output_path].entries
        IN  /\ EntryNames(O) = EntryNames(T) \cup AvailableBadgeNames(data, assets)
            /\ Len(O) >= Len(T)
            /\ \A i \in 1..Len(T) :
                  /\ O[i].name = T[i].name
                  /\ T[i].name \notin {DocName, RelsName}
                        => O[i].content = T[i].content

\* badges is absent from the input, or empty
ZeroBadges(d) == ~d.malformed /\ ("badges" \notin d.keys \/ d.badges = <<>>)

\* C10: for a valid input with zero badges (absent or empty) the manifest
\* has no image entry, the education paragraph has no anchor, and no badge
\* entry is appended to the archive: the output holds the template's kept
\* entries and nothing more.
C10_ZeroBadges ==
    ZeroBadges(data) =>
        /\ doc_xml.built => EduAnchors(doc_xml) = <<>>
        /\ \A i \in 1..Len(rels_xml) : rels_xml[i].Type # "image"
        /\ pc \in {"rels_built", "opening", "splice", "closed", "moved", "done"}
              => Len(rels_xml) = Len(fixed_rels) + Len(HEADER_FOOTER_RELS) + 2
        /\ fs[TMP_PATH].kind \in {"writing", "zip"} =>
              Len(fs[TMP_PATH].entries) <= zi - 1
        /\ pc \in {"moved", "done"} =>
              /\ Len(fs[output_path].entries)
                    = Len(KeptEntries(fs[TEMPLATE_PATH].entries))
              /\ warned = <<>>

\* C10 witness: an invocation whose input has no badges key has finished.
C10_Witness ==
    /\ pc = "done"
    /\ "badges" \notin data.keys
    /\ ~RaisesKeyError(data)
    /\ Len(fs[TEMPLATE_PATH].entries) > 0

\* a job's company line is emitted when its company value is a non-empty
\* string
CompanyLine(job) == "company" \in job.keys /\ job.company # ""

\* the number of paragraphs of a job: title, company line if any, bullets
JobSize(job) == 1 + (IF CompanyLine(job) THEN 1 ELSE 0) + Len(job.bullets)

\* the number of body elements before the paragraphs of job j
RECURSIVE JobStart(_, _)
JobStart(jobs, j) ==
    IF j = 1 THEN 10 ELSE JobStart(jobs, j - 1) + JobSize(jobs[j - 1])

\* C11: the body is, in this order: contact line, 'Professional Experience
\* Summary' heading, summary, 'Education & Certifications' heading,
\* education paragraph, four spacers, 'Professional Experience' heading,
\* then per job in input order its title paragraph, its company paragraph
\* if any and one bullet paragraph per bullet in input order, then two
\* spacers, then the section block as the last element.
C11_BodyOrder ==
    doc_xml.built =>
        LET B == doc_xml.body
            jobs == data.jobs
            last == JobStart(jobs, Len(jobs) + 1)
        IN  /\ Len(B) = last + 3
            /\ B[1].kind = "contact"
            /\ B[2] = [kind |-> "heading",
                       title |-> "Professional Experience Summary"]
            /\ B[3].kind = "summary"
            /\ B[4] = [kind |-> "heading",
                       title |-> "Education & Certifications"]
            /\ B[5].kind = "education"
            /\ \A i \in 6..9 : B[i].kind = "empty"
            /\ B[10] = [kind |-> "heading", title |-> "Professional Experience"]
            /\ \A j \in 1..Len(jobs) :
                  LET s == JobStart(jobs, j)
                      c == IF CompanyLine(jobs[j]) THEN 1 ELSE 0
                  IN  /\ B[s + 1].kind = "job_title"
                      /\ B[s + 1].title = jobs[j].title
                      /\ c = 1 => /\ B[s + 2].kind = "company"
                                  /\ B[s + 2].company = jobs[j].company
                      /\ \A i \in 1..Len(jobs[j].bullets) :
                            /\ B[s + 1 + c + i].kind = "bullet"
                            /\ B[s + 1 + c + i].text = jobs[j].bullets[i]
            /\ B[last + 1].kind = "empty"
            /\ B[last + 2].kind = "empty"
            /\ B[last + 3].kind = "sectPr"

\* C11 witness: a document was built from two jobs, the first with a
\* company and two bullets, the second with neither.
C11_Witness ==
    /\ doc_xml.built
    /\ Len(data.jobs) = 2
    /\ CompanyLine(data.jobs[1])
    /\ Len(data.jobs[1].bullets) = 2
    /\ ~CompanyLine(data.jobs[2])
    /\ Len(doc_xml.body) = 18

\* the index in body B of the title paragraph of the j-th job
TitleIndex(B, j) ==
    CHOOSE i \in 1..Len(B) :
        /\ B[i].kind = "job_title"
        /\ Cardinality({k \in 1..(i - 1) : B[k].kind = "job_title"}) = j - 1

\* with_company(job) decides, for every job of the input, between a title
\* paragraph without the border-suppression element that is immediately
\* followed by exactly one company paragraph, and a title paragraph with
\* the element and no company paragraph.
CompanyLayout(with_company(_)) ==
    doc_xml.built =>
        LET B == doc_xml.body
            jobs == data.jobs
        IN  /\ Cardinality({i \in 1..Len(B) : B[i].kind = "job_title"})
                 = Len(jobs)
            /\ Cardinality({i \in 1..Len(B) : B[i].kind = "company"})
                 = Cardinality({j \in 1..Len(jobs) : with_company(jobs[j])})
            /\ \A j \in 1..Len(jobs) :
                  LET t == TitleIndex(B, j)
                  IN  IF with_company(jobs[j])
                      THEN /\ ~B[t].pBdr
                           /\ B[t + 1].kind = "company"
                           /\ B[t + 1].company = jobs[j].company
                           /\ B[t + 2].kind # "company"
                      ELSE /\ B[t].pBdr
                           /\ B[t + 1].kind # "company"

\* C12 as stated: a job that has a company field gets the title paragraph
\* without border suppression followed by exactly one company paragraph;
\* a job without the field gets border suppression and no company
\* paragraph.
C12_CompanyFieldPresent == CompanyLayout(HasCompanyKey)

\* C12 amended: a job whose company field holds a non-empty value gets the
\* title paragraph without border suppression followed by exactly one
\* company paragraph; a job with no company field, or an empty one, gets
\* border suppression and no company paragraph.
C12_CompanyNonEmpty == CompanyLayout(CompanyLine)

\* C12 witness: a document was built from a job whose company is the empty
\* string and a job with a non-empty company.
C12_Witness ==
    /\ doc_xml.built
    /\ \E j \in 1..Len(data.jobs) :
          "company" \in data.jobs[j].keys /\ data.jobs[j].company = ""
    /\ \E j \in 1..Len(data.jobs) : CompanyLine(data.jobs[j])
    /\ \E i \in 1..Len(doc_xml.body) : doc_xml.body[i].kind = "company"

\* the requested registry badges whose asset file is missing
MissingBadges ==
    {k \in Range(badge_keys) :
        InRegistry(k) /\ BADGE_REGISTRY[k].filename \notin assets}

\* the requested registry badges whose asset file is present
PresentBadges ==
    {k \in Range(badge_keys) :
        InRegistry(k) /\ BADGE_REGISTRY[k].filename \in assets}

\* C13: when a requested registry badge's asset file is missing, the
\* splice still completes: a warning names the missing file, the archive at
\* the output path is the new archive, it holds no entry made from the
\* missing asset and one entry for every badge whose asset is present, and
\* the manifest still declares the image relationship of the missing
\* badge. An exception raised while badges are appended is never about a
\* missing file.
C13_MissingAssetTolerated ==
    /\ (pc \in {"moved", "done"} /\ MissingBadges # {}) =>
          LET out == fs[output_path]
          IN  /\ err = "none"
              /\ out.kind = "zip"
              /\ out = SplicedArchive(fs[TEMPLATE_PATH].entries, badge_keys,
                                      assets)
              /\ \A k \in MissingBadges :
                    LET fn == BADGE_REGISTRY[k].filename
                    IN  /\ fn \in Range(warned)
                        /\ \A i \in 1..Len(out.entries) :
                              out.entries[i].content # "asset:" \o fn
                        /\ \E i \in 1..Len(rels_xml) :
                              /\ rels_xml[i].Type = "image"
                              /\ rels_xml[i].Target = "media/" \o fn
              /\ \A k \in PresentBadges :
                    LET fn == BADGE_REGISTRY[k].filename
                    IN  \E i \in 1..Len(out.entries) :
                          out.entries[i] = [name |-> "word/media/" \o fn,
                                            content |-> AssetContent(fn)]
    /\ (raised_at = "splice" /\ MissingBadges # {}) => err = "OSError"

\* C13 witness: an invocation has ended normally with csm requested and
\* its asset missing, ts_sci requested and its asset present.
C13_Witness ==
    /\ pc = "done"
    /\ "csm" \in MissingBadges
    /\ "ts_sci" \in PresentBadges
    /\ "csm.png" \in Range(warned)

\* the identifiers of a manifest, in document order
ManifestIds(rels) == [i \in 1..Len(rels) |-> rels[i].Id]

\* C14: the manifest lists the ten fixed entries rId1..rId10, then one
\* image entry per recognized badge in input order, the i-th (from 0) with
\* identifier rId(11+i) and target media/<registry filename>, then the six
\* header/footer entries rId15..rId20, then fontTable rId21 and theme
\* rId22; the badge identifiers stay strictly between rId10 and rId15, and
\* all identifiers of the manifest are pairwise distinct.
C14_ManifestLayout ==
    pc = "rels_built" =>
        LET R == rels_xml
            K == FilterBadges(data)
            n == Len(K)
        IN  /\ Len(R) = n + 18
            /\ \A i \in 1..10 : R[i].Id = RId(i) /\ R[i].Type # "image"
            /\ \A i \in 1..n :
                  R[10 + i] = [Id |-> RId(11 + (i - 1)),
                               Type |-> "image",
                               Target |-> "media/"
                                          \o BADGE_REGISTRY[K[i]].filename]
            /\ \A i \in 1..6 :
                  /\ R[10 + n + i].Id = RId(14 + i)
                  /\ R[10 + n + i].Type \in {"header", "footer"}
            /\ R[n + 17] = [Id |-> RId(21), Type |-> "fontTable",
                            Target |-> "fontTable.xml"]
            /\ R[n + 18] = [Id |-> RId(22), Type |-> "theme",
                            Target |-> "theme/theme1.xml"]
            /\ \A i \in 1..n : R[10 + i].Id[2] \in 11..14
            /\ Distinct(ManifestIds(R))

\* the entry names of an archive, in archive order
NameSeq(entries) == [i \in 1..Len(entries) |-> entries[i].name]

\* C15: for a template whose entry names are pairwise distinct and any
\* badge sequence, the archive written to the output path never holds two
\* entries of the same name.
C15_NoDuplicateNames ==
    (/\ pc \in {"moved", "done"}
     /\ Distinct(NameSeq(fs[TEMPLATE_PATH].entries))) =>
        Distinct(NameSeq(fs[output_path].entries))

\* a step leaves the template archive and the badge asset files as they are
InputFilesKept ==
    /\ fs'[TEMPLATE_PATH] = fs[TEMPLATE_PATH]
    /\ fs'[ASSET_PATH] = fs[ASSET_PATH]
    /\ assets' = assets

\* an invocation whose output path is the template path writes nothing and
\* gets no further than the copy, where it fails
SameFileRefused ==
    /\ [][output_path = TEMPLATE_PATH => fs' = fs]_vars
    /\ [](output_path = TEMPLATE_PATH => pc \in {"start", "loaded", "failed"})

\* C16 as stated: no step of any invocation, successful or failing, changes
\* the template archive or a badge asset file; an invocation whose output
\* path is the template path fails before anything is written.
C16_InputsNeverChanged ==
    /\ [][InputFilesKept]_vars
    /\ SameFileRefused

\* C16 amended: no step of an invocation whose output path is not a badge
\* asset file changes the template archive or a badge asset file; an
\* invocation whose output path is the template path fails before anything
\* is written.
C16_InputsKeptUnlessOutput ==
    /\ [][output_path # ASSET_PATH => InputFilesKept]_vars
    /\ SameFileRefused

\* C16 witness: an invocation given the template path as its output path
\* has failed at the copy, the template archive being what it was.
C16_Witness ==
    /\ pc = "failed"
    /\ err = "SameFileError"
    /\ output_path = TEMPLATE_PATH
    /\ fs[TEMPLATE_PATH] = out0
    /\ fs[TEMPLATE_PATH].kind = "zip"

====
